---- MODULE Spec2Model ----
(***************************************************************************)
(* Urban Heat Island dashboard: the Application Shell (App) and its API    *)
(* client (UHIViewModel).  The model follows the view-state / data-fetch   *)
(* lifecycle: mount, health check, the effect on backendHealthy,           *)
(* loadUHIData with its validation and its fetch continuation, and the     *)
(* user controls that are enabled or disabled by the rendered state.       *)
(*                                                                         *)
(* Encodings.  A JavaScript string is a sequence of text tokens, the empty *)
(* string being << >>.  A value that may be null/undefined is a sequence   *)
(* of length 0 (Null) or 1 (Some(v)).                                      *)
(***************************************************************************)
EXTENDS Integers, Sequences, FiniteSets, TLC

VARIABLES
    uhiData,         \* useState(null): Null or Some(list of points)
    statistics,      \* useState(null): Null or Some(statistics)
    loading,         \* useState(true)
    error,           \* useState(null): Null or Some(message)
    backendHealthy,  \* useState(false)
    numPoints,       \* useState(100)
    daysBack,        \* useState(30)
    health,          \* checkBackendHealth: "idle", "pending", or the answer it got
    effectPending,   \* the effect on [backendHealthy] is scheduled to run
    inflight,        \* outstanding fetchUHIData requests
    nextId,          \* id given to the next fetchUHIData request
    dataSrc,         \* history: id of the request whose response set uhiData
    statsSrc,        \* history: id of the request whose response set statistics
    lastEvent,       \* history: the handler that ran last, and its input
    selectedZone,    \* useState("all")
    selectedPoint,   \* useState(null)
    activeView,      \* useState("map")
    mapData,         \* MapView: useState([])
    mapFetch,        \* MapView: "none" (not mounted), "pending", "done"
    now,             \* the time new Date() reports
    lastLoad         \* history: the payload and time of the last successful load

vars == << uhiData, statistics, loading, error, backendHealthy, numPoints,
           daysBack, health, effectPending, inflight, nextId, dataSrc,
           statsSrc, lastEvent, selectedZone, selectedPoint,
           activeView, mapData, mapFetch, now, lastLoad >>

\* selectedZone, selectedPoint, activeView
uiVars == << selectedZone, selectedPoint, activeView >>

\* The state of the MapView component
mapVars == << mapData, mapFetch >>

-----------------------------------------------------------------------------
(* Bounds of the model *)

MaxRequests == 2

SliderSamples == 1

MaxClock == 1

-----------------------------------------------------------------------------
(* Optional values and strings *)

Null == << >>

Some(v) == << v >>

EmptyStr == << >>

Str(s) == << s >>

\* JavaScript truthiness of a possibly absent string: absent and "" are falsy
TruthyStr(o) == o # Null /\ o[1] # EmptyStr

\* JavaScript truthiness of a possibly absent object or array ([] is truthy)
TruthyObj(o) == o # Null

RECURSIVE join(_, _)
\* Array.prototype.join
join(list, sep) ==
    IF list = << >> THEN EmptyStr
    ELSE IF Len(list) = 1 THEN list[1]
    ELSE list[1] \o sep \o join(Tail(list), sep)

\* String.prototype.includes for one token
Contains(msg, token) == \E i \in 1..Len(msg) : msg[i] = token

-----------------------------------------------------------------------------
(* UHIViewModel *)

MinPoints == 10

MaxPoints == 500

MinDays == 7

MaxDays == 90

PointsMessage == Str("Number of points must be between 10 and 500")

DaysMessage == Str("Days back must be between 7 and 90")

\* Variant: the two comparisons of a field joined by && instead of ||
validateParametersConjoined(n, d) ==
    (IF n < MinPoints /\ n > MaxPoints THEN << PointsMessage >> ELSE << >>)
    \o (IF d < MinDays /\ d > MaxDays THEN << DaysMessage >> ELSE << >>)

validateParameters(n, d) ==
    (IF n < MinPoints \/ n > MaxPoints THEN << PointsMessage >> ELSE << >>)
    \o (IF d < MinDays \/ d > MaxDays THEN << DaysMessage >> ELSE << >>)

\* response.ok
ResponseOk(resp) == resp.status \in 200..299

Throw(msg) == [threw |-> TRUE, message |-> msg, result |-> Null]

Return(body) == [threw |-> FALSE, message |-> EmptyStr, result |-> Some(body)]

HttpErrorMessage(status) == << "HTTP error! status: ", ToString(status) >>

ApiFallbackMessage == Str("API returned error")

\* Variant: new Error(result.error).message, without the fallback
ApiErrorMessageNoFallback(body) ==
    IF body.error # Null THEN body.error[1] ELSE EmptyStr

\* new Error(result.error || "API returned error").message
ApiErrorMessage(body) ==
    IF TruthyStr(body.error) THEN body.error[1] ELSE ApiFallbackMessage

\* Variant: fetchUHIData without the response.ok test
fetchUHIDataNoStatusCheck(resp) ==
    IF ~resp.net THEN Throw(resp.failure)
    ELSE IF ~resp.json THEN Throw(resp.failure)
    ELSE IF ~resp.body.success THEN Throw(ApiErrorMessage(resp.body))
    ELSE Return(resp.body)

\* The outcome of fetchUHIData once the network has answered with resp
fetchUHIData(resp) ==
    IF ~resp.net THEN Throw(resp.failure)
    ELSE IF ~ResponseOk(resp) THEN Throw(HttpErrorMessage(resp.status))
    ELSE IF ~resp.json THEN Throw(resp.failure)
    ELSE IF ~resp.body.success THEN Throw(ApiErrorMessage(resp.body))
    ELSE Return(resp.body)

\* The answer to the health request: a status, or a failure of the network
HealthAnswer(h) ==
    IF h = "ok" THEN [net |-> TRUE, status |-> 200]
    ELSE IF h = "notok" THEN [net |-> TRUE, status |-> 503]
    ELSE [net |-> FALSE, status |-> 0]

\* The try block of checkHealth: fetch rejects, or response.ok is returned
checkHealthTry(h) ==
    IF ~HealthAnswer(h).net
      THEN [threw |-> TRUE, value |-> FALSE]
      ELSE [threw |-> FALSE, value |-> ResponseOk(HealthAnswer(h))]

\* Variant: checkHealth without its try/catch
checkHealthNoCatch(h) == checkHealthTry(h)

\* checkHealth: response.ok, or false when fetch rejects
checkHealth(h) ==
    IF checkHealthTry(h).threw
      THEN [threw |-> FALSE, value |-> FALSE]
      ELSE checkHealthTry(h)

-----------------------------------------------------------------------------
(* What the network can answer *)

HealthResponses == { "ok", "notok", "neterr" }

Point(lat, lon, zone) ==
    [lat |-> lat, lon |-> lon, zone |-> zone, recommendation |-> zone]

DataA == << Point(20, 85, 0), Point(21, 86, 1), Point(22, 87, 2) >>

DataB == << Point(22, 87, 2), Point(20, 85, 0) >>

StatsA == [z0 |-> 1, z1 |-> 1, z2 |-> 1]

StatsB == [z0 |-> 1, z1 |-> 0, z2 |-> 1]

StatsNone == [z0 |-> 0, z1 |-> 0, z2 |-> 0]

NoBody == [success |-> FALSE, error |-> Null, data |-> Null, statistics |-> Null]

SuccessBodies ==
    { [success |-> TRUE, error |-> Null, data |-> Some(DataA), statistics |-> Some(StatsA)],
      [success |-> TRUE, error |-> Null, data |-> Some(DataB), statistics |-> Some(StatsB)],
      [success |-> TRUE, error |-> Null, data |-> Some(<< >>), statistics |-> Some(StatsNone)],
      [success |-> TRUE, error |-> Null, data |-> Null, statistics |-> Null] }

ErrorFields == { Null, Some(EmptyStr), Some(Str("Weather API unavailable")) }

FailureBodies ==
    { [success |-> FALSE, error |-> e, data |-> Null, statistics |-> Null] :
        e \in ErrorFields }

NetworkFailure ==
    [net |-> FALSE, status |-> 0, json |-> FALSE, body |-> NoBody,
     failure |-> Str("Failed to fetch")]

HttpFailures ==
    { [net |-> TRUE, status |-> 404, json |-> FALSE, body |-> NoBody,
       failure |-> Str("Unexpected token <")],
      [net |-> TRUE, status |-> 500, json |-> TRUE,
       body |-> [success |-> FALSE, error |-> Some(Str("Internal error")),
                 data |-> Null, statistics |-> Null],
       failure |-> EmptyStr] }

BadJson ==
    [net |-> TRUE, status |-> 200, json |-> FALSE, body |-> NoBody,
     failure |-> Str("Unexpected token <")]

JsonResponses ==
    { [net |-> TRUE, status |-> 200, json |-> TRUE, body |-> b, failure |-> EmptyStr] :
        b \in SuccessBodies \cup FailureBodies }

FetchResponses == { NetworkFailure, BadJson } \cup HttpFailures \cup JsonResponses

-----------------------------------------------------------------------------
(* The controls *)

InitNumPoints == 100

InitDaysBack == 30

PointsSliderMin == 10

PointsSliderMax == 200

PointsSliderStep == 10

DaysSliderMin == 7

DaysSliderMax == 90

DaysSliderStep == 7

\* The values an <input type="range" min max step> can report
RangeValues(min, max, step) ==
    { min + k * step : k \in 0..((max - min) \div step) }

\* The slider positions the model tries: the first SliderSamples and the last
Sampled(min, max, step) ==
    { v \in RangeValues(min, max, step) :
        \/ (v - min) \div step < SliderSamples
        \/ v + step > max }

PointsSlider == Sampled(PointsSliderMin, PointsSliderMax, PointsSliderStep)

DaysSlider == Sampled(DaysSliderMin, DaysSliderMax, DaysSliderStep)

\* Variant: the Refresh button without the loading guard
RefreshDisabledIgnoringLoading == ~backendHealthy

\* Variant: the Refresh button without the backendHealthy guard
RefreshDisabledIgnoringHealth == loading

\* disabled={loading || !backendHealthy} of the Refresh button
RefreshDisabled == loading \/ ~backendHealthy

\* disabled={loading || !backendHealthy} of the Apply Changes button
ApplyDisabled == loading \/ ~backendHealthy

\* Variant: the sliders without disabled={loading}
SliderNeverDisabled == FALSE

\* disabled={loading} of the two sliders
SliderDisabled == loading

BackendDownMessage ==
    Str("Backend server is not responding. Please try again later.")

LoadFallbackMessage == Str("Failed to load UHI data")

Event(type) == [type |-> type, resp |-> Null]

\* The main content shows the data views (neither the spinner nor the empty state)
Displayed == ~loading /\ TruthyObj(uhiData)

\* disabled={!uhiData} of the Export button
ExportDisabled == ~TruthyObj(uhiData)

\* The two tabs
Views == { "map", "analytics" }

\* The zones the Legend can report through onZoneFilter
ZoneFilters == { "all", "0", "1", "2" }

\* The map layout (Legend and MapView) is rendered
MapLayoutShown == Displayed /\ activeView = "map"

\* What GET /api/uhi can answer to MapView: a list of points, or nothing
\* when the request fails
MapAnswers == { Some(DataB), Null }

\* MapView: the background of a marker
MarkerColor(zone) ==
    IF zone = 2 THEN "red" ELSE IF zone = 1 THEN "orange" ELSE "green"

\* MapView: data.map((d, i) => <Marker ...>)
Markers(data) ==
    [i \in 1..Len(data) |->
        [latitude |-> data[i].lat, longitude |-> data[i].lon,
         background |-> MarkerColor(data[i].zone),
         title |-> data[i].recommendation]]

\* The markers on the screen
RenderedMarkers == IF mapFetch = "none" THEN << >> ELSE Markers(mapData)

\* Rendering after a handler: MapView is unmounted when the map layout is not
\* rendered, and mounted (empty data, its effect fetching) when it appears
MapViewRender ==
    IF ~(Displayed' /\ activeView' = "map")
      THEN mapData' = << >> /\ mapFetch' = "none"
      ELSE IF mapFetch = "none"
        THEN mapData' = << >> /\ mapFetch' = "pending"
        ELSE UNCHANGED mapVars

\* JSON.stringify({ data, statistics, exportedAt }): a key whose value is
\* undefined is left out
JsonDocument(data, stats, t) ==
    IF stats = Null
      THEN [data |-> data[1], exportedAt |-> t]
      ELSE [data |-> data[1], statistics |-> stats[1], exportedAt |-> t]

-----------------------------------------------------------------------------
(* The Application Shell *)

Init ==
    /\ uhiData = Null
    /\ statistics = Null
    /\ loading = TRUE
    /\ error = Null
    /\ backendHealthy = FALSE
    /\ numPoints = InitNumPoints
    /\ daysBack = InitDaysBack
    /\ health = "idle"
    /\ effectPending = FALSE
    /\ inflight = {}
    /\ nextId = 1
    /\ dataSrc = 0
    /\ statsSrc = 0
    /\ lastEvent = Event("init")
    /\ selectedZone = "all"
    /\ selectedPoint = Null
    /\ activeView = "map"
    /\ mapData = << >>
    /\ mapFetch = "none"
    /\ now = 0
    /\ lastLoad = Null

\* Mount: the effect with no dependencies calls checkBackendHealth, which
\* runs up to its await; the effect on [backendHealthy] sees false.
Mount ==
    /\ health = "idle"
    /\ health' = "pending"
    /\ lastEvent' = Event("mount")
    /\ UNCHANGED << uiVars, mapVars, now, lastLoad >>
    /\ UNCHANGED << uhiData, statistics, loading, error, backendHealthy,
                    numPoints, daysBack, effectPending, inflight, nextId,
                    dataSrc, statsSrc >>

\* checkBackendHealth after its await
checkBackendHealth(h) ==
    LET healthy == checkHealth(h).value IN
    /\ health = "pending"
    /\ health' = h
    /\ IF checkHealth(h).threw
         THEN \* the await throws: the rest of checkBackendHealth does not run
              UNCHANGED << backendHealthy, effectPending, error, loading >>
         ELSE /\ backendHealthy' = healthy
              /\ effectPending' = (healthy # backendHealthy)
              /\ IF ~healthy
                   THEN /\ error' = Some(BackendDownMessage)
                        /\ loading' = FALSE
                   ELSE UNCHANGED << error, loading >>
    /\ lastEvent' = [type |-> "health", resp |-> Some(h)]
    /\ UNCHANGED << uiVars, mapVars, now, lastLoad >>
    /\ UNCHANGED << uhiData, statistics, numPoints, daysBack, inflight,
                    nextId, dataSrc, statsSrc >>

\* Variant: loadUHIData without the return after a failed validation
loadUHIDataNoReturn ==
    LET errors == validateParameters(numPoints, daysBack) IN
    /\ error' = IF Len(errors) > 0 THEN Some(join(errors, << ". " >>)) ELSE Null
    /\ loading' = TRUE
    /\ inflight' = inflight \cup
          { [id |-> nextId, points |-> numPoints, days |-> daysBack] }
    /\ nextId' = nextId + 1

\* Variant: loadUHIData without setError(null)
loadUHIDataKeepsError ==
    LET errors == validateParameters(numPoints, daysBack) IN
    IF Len(errors) > 0
      THEN /\ error' = Some(join(errors, << ". " >>))
           /\ loading' = FALSE
           /\ UNCHANGED << inflight, nextId >>
      ELSE /\ UNCHANGED error
           /\ loading' = TRUE
           /\ inflight' = inflight \cup
                 { [id |-> nextId, points |-> numPoints, days |-> daysBack] }
           /\ nextId' = nextId + 1

\* loadUHIData up to its await (or to its early return)
loadUHIData ==
    LET errors == validateParameters(numPoints, daysBack) IN
    IF Len(errors) > 0
      THEN /\ error' = Some(join(errors, << ". " >>))
           /\ loading' = FALSE
           /\ UNCHANGED << inflight, nextId >>
      ELSE /\ error' = Null
           /\ loading' = TRUE
           /\ inflight' = inflight \cup
                 { [id |-> nextId, points |-> numPoints, days |-> daysBack] }
           /\ nextId' = nextId + 1

\* useEffect(() => { if (backendHealthy) loadUHIData(); }, [backendHealthy])
LoadWhenHealthy ==
    /\ effectPending
    /\ effectPending' = FALSE
    /\ IF backendHealthy
         THEN loadUHIData
         ELSE UNCHANGED << error, loading, inflight, nextId >>
    /\ lastEvent' = Event("effect")
    /\ UNCHANGED << uiVars, now, lastLoad >>
    /\ UNCHANGED << uhiData, statistics, backendHealthy, numPoints, daysBack,
                    health, dataSrc, statsSrc >>
    /\ MapViewRender

handleRefresh ==
    /\ ~RefreshDisabled
    /\ nextId <= MaxRequests
    /\ loadUHIData
    /\ lastEvent' = Event("refresh")
    /\ UNCHANGED << uiVars, now, lastLoad >>
    /\ UNCHANGED << uhiData, statistics, backendHealthy, numPoints, daysBack,
                    health, effectPending, dataSrc, statsSrc >>
    /\ MapViewRender

handleApplyFilters ==
    /\ ~ApplyDisabled
    /\ nextId <= MaxRequests
    /\ loadUHIData
    /\ lastEvent' = Event("apply")
    /\ UNCHANGED << uiVars, now, lastLoad >>
    /\ UNCHANGED << uhiData, statistics, backendHealthy, numPoints, daysBack,
                    health, effectPending, dataSrc, statsSrc >>
    /\ MapViewRender

\* History: what a successful load stored, and when
Loaded(result, t) ==
    [data |-> result.data, statistics |-> result.statistics, at |-> t]

\* err.message || "Failed to load UHI data"
CatchMessage(outcome) ==
    IF outcome.message # EmptyStr THEN outcome.message ELSE LoadFallbackMessage

RECURSIVE Reverse(_)
Reverse(list) ==
    IF list = << >> THEN << >> ELSE Reverse(Tail(list)) \o << Head(list) >>

\* Variant: the continuation stores the points only (no setStatistics)
loadUHIDataSettledPartial(req, resp) ==
    LET outcome == fetchUHIData(resp) IN
    /\ req \in inflight
    /\ inflight' = inflight \ { req }
    /\ IF outcome.threw
         THEN /\ error' = Some(CatchMessage(outcome))
              /\ UNCHANGED << uhiData, statistics, dataSrc, statsSrc, lastLoad >>
         ELSE /\ uhiData' = outcome.result[1].data
              /\ dataSrc' = req.id
              /\ lastLoad' = Some(Loaded(outcome.result[1], now))
              /\ UNCHANGED << statistics, statsSrc, error >>
    /\ loading' = FALSE
    /\ lastEvent' = [type |-> "settled", resp |-> Some(resp)]
    /\ UNCHANGED << uiVars, now >>
    /\ MapViewRender
    /\ UNCHANGED << backendHealthy, numPoints, daysBack, health,
                    effectPending, nextId >>

\* Variant: the continuation stores the points in reverse order
loadUHIDataSettledReversed(req, resp) ==
    LET outcome == fetchUHIData(resp) IN
    /\ req \in inflight
    /\ inflight' = inflight \ { req }
    /\ IF outcome.threw
         THEN /\ error' = Some(CatchMessage(outcome))
              /\ UNCHANGED << uhiData, statistics, dataSrc, statsSrc, lastLoad >>
         ELSE /\ uhiData' = IF outcome.result[1].data = Null THEN Null
                             ELSE Some(Reverse(outcome.result[1].data[1]))
              /\ statistics' = outcome.result[1].statistics
              /\ dataSrc' = req.id
              /\ lastLoad' = Some(Loaded(outcome.result[1], now))
              /\ statsSrc' = req.id
              /\ UNCHANGED error
    /\ loading' = FALSE
    /\ lastEvent' = [type |-> "settled", resp |-> Some(resp)]
    /\ UNCHANGED << uiVars, now >>
    /\ MapViewRender
    /\ UNCHANGED << backendHealthy, numPoints, daysBack, health,
                    effectPending, nextId >>

\* Variant: setLoading(false) at the end of the try body, not in a finally
loadUHIDataSettledNoFinally(req, resp) ==
    LET outcome == fetchUHIData(resp) IN
    /\ req \in inflight
    /\ inflight' = inflight \ { req }
    /\ IF outcome.threw
         THEN /\ error' = Some(CatchMessage(outcome))
              /\ UNCHANGED << uhiData, statistics, dataSrc, statsSrc, lastLoad, loading >>
         ELSE /\ uhiData' = outcome.result[1].data
              /\ statistics' = outcome.result[1].statistics
              /\ dataSrc' = req.id
              /\ lastLoad' = Some(Loaded(outcome.result[1], now))
              /\ statsSrc' = req.id
              /\ loading' = FALSE
              /\ UNCHANGED error
    /\ lastEvent' = [type |-> "settled", resp |-> Some(resp)]
    /\ UNCHANGED << uiVars, now >>
    /\ MapViewRender
    /\ UNCHANGED << backendHealthy, numPoints, daysBack, health,
                    effectPending, nextId >>

\* Variant: the catch sends the request again
loadUHIDataSettledRetry(req, resp) ==
    LET outcome == fetchUHIData(resp) IN
    /\ req \in inflight
    /\ IF outcome.threw
         THEN /\ error' = Some(CatchMessage(outcome))
              /\ IF nextId <= MaxRequests
                   THEN /\ inflight' = (inflight \ { req }) \cup
                              { [id |-> nextId, points |-> numPoints, days |-> daysBack] }
                        /\ nextId' = nextId + 1
                        /\ loading' = TRUE
                   ELSE /\ inflight' = inflight \ { req }
                        /\ loading' = FALSE
                        /\ UNCHANGED nextId
              /\ UNCHANGED << uhiData, statistics, dataSrc, statsSrc, lastLoad >>
         ELSE /\ uhiData' = outcome.result[1].data
              /\ statistics' = outcome.result[1].statistics
              /\ dataSrc' = req.id
              /\ lastLoad' = Some(Loaded(outcome.result[1], now))
              /\ statsSrc' = req.id
              /\ inflight' = inflight \ { req }
              /\ loading' = FALSE
              /\ UNCHANGED << error, nextId >>
    /\ lastEvent' = [type |-> "settled", resp |-> Some(resp)]
    /\ UNCHANGED << uiVars, now >>
    /\ MapViewRender
    /\ UNCHANGED << backendHealthy, numPoints, daysBack, health, effectPending >>

\* Variant: the catch also clears the data (setUhiData(null), setStatistics(null))
loadUHIDataSettledClearing(req, resp) ==
    LET outcome == fetchUHIData(resp) IN
    /\ req \in inflight
    /\ inflight' = inflight \ { req }
    /\ IF outcome.threw
         THEN /\ error' = Some(CatchMessage(outcome))
              /\ uhiData' = Null
              /\ statistics' = Null
              /\ UNCHANGED << dataSrc, statsSrc, lastLoad >>
         ELSE /\ uhiData' = outcome.result[1].data
              /\ statistics' = outcome.result[1].statistics
              /\ dataSrc' = req.id
              /\ lastLoad' = Some(Loaded(outcome.result[1], now))
              /\ statsSrc' = req.id
              /\ UNCHANGED error
    /\ loading' = FALSE
    /\ lastEvent' = [type |-> "settled", resp |-> Some(resp)]
    /\ UNCHANGED << uiVars, now >>
    /\ MapViewRender
    /\ UNCHANGED << backendHealthy, numPoints, daysBack, health,
                    effectPending, nextId >>

\* loadUHIData after its await: the try body, the catch and the finally
loadUHIDataSettled(req, resp) ==
    LET outcome == fetchUHIData(resp) IN
    /\ req \in inflight
    /\ inflight' = inflight \ { req }
    /\ IF outcome.threw
         THEN /\ error' = Some(CatchMessage(outcome))
              /\ UNCHANGED << uhiData, statistics, dataSrc, statsSrc, lastLoad >>
         ELSE /\ uhiData' = outcome.result[1].data
              /\ statistics' = outcome.result[1].statistics
              /\ dataSrc' = req.id
              /\ lastLoad' = Some(Loaded(outcome.result[1], now))
              /\ statsSrc' = req.id
              /\ UNCHANGED error
    /\ loading' = FALSE
    /\ lastEvent' = [type |-> "settled", resp |-> Some(resp)]
    /\ UNCHANGED << uiVars, now >>
    /\ MapViewRender
    /\ UNCHANGED << backendHealthy, numPoints, daysBack, health,
                    effectPending, nextId >>

\* onChange of the Sample Points slider
setNumPoints(v) ==
    /\ ~SliderDisabled
    /\ numPoints' = v
    /\ lastEvent' = Event("points")
    /\ UNCHANGED << uiVars, mapVars, now, lastLoad >>
    /\ UNCHANGED << uhiData, statistics, loading, error, backendHealthy,
                    daysBack, health, effectPending, inflight, nextId,
                    dataSrc, statsSrc >>

\* onChange of the Historical Data slider
setDaysBack(v) ==
    /\ ~SliderDisabled
    /\ daysBack' = v
    /\ lastEvent' = Event("days")
    /\ UNCHANGED << uiVars, mapVars, now, lastLoad >>
    /\ UNCHANGED << uhiData, statistics, loading, error, backendHealthy,
                    numPoints, health, effectPending, inflight, nextId,
                    dataSrc, statsSrc >>

\* onClick of the close button of the error banner
DismissError ==
    /\ TruthyObj(error)
    /\ error' = Null
    /\ lastEvent' = Event("dismiss")
    /\ UNCHANGED << uiVars, mapVars, now, lastLoad >>
    /\ UNCHANGED << uhiData, statistics, loading, backendHealthy, numPoints,
                    daysBack, health, effectPending, inflight, nextId,
                    dataSrc, statsSrc >>

handleZoneFilter(zone) ==
    /\ MapLayoutShown
    /\ selectedZone' = zone
    /\ lastEvent' = Event("zone")
    /\ UNCHANGED << uhiData, statistics, loading, error, backendHealthy,
                    numPoints, daysBack, health, effectPending, inflight,
                    nextId, dataSrc, statsSrc, selectedPoint,
                    activeView, mapVars, now, lastLoad >>

\* onClick of a tab button, and the rendering it causes
setActiveView(view) ==
    /\ Displayed
    /\ activeView' = view
    /\ lastEvent' = Event("tab")
    /\ UNCHANGED << uhiData, statistics, loading, error, backendHealthy,
                    numPoints, daysBack, health, effectPending, inflight,
                    nextId, dataSrc, statsSrc, selectedZone, selectedPoint,
                    now, lastLoad >>
    /\ MapViewRender

\* Variant: the timestamp is taken once, when the module is loaded
handleExportDataStaleTimestamp ==
    /\ ~ExportDisabled
    /\ lastEvent' = [type |-> "export",
                      resp |-> IF ~TruthyObj(uhiData) THEN Null
                               ELSE Some(JsonDocument(uhiData, statistics, 0))]
    /\ UNCHANGED << uhiData, statistics, loading, error, backendHealthy,
                    numPoints, daysBack, health, effectPending, inflight,
                    nextId, dataSrc, statsSrc, uiVars, mapVars, now, lastLoad >>

\* handleExportData: the document that is downloaded is kept as the input
\* of the last event
handleExportData ==
    /\ ~ExportDisabled
    /\ lastEvent' = [type |-> "export",
                      resp |-> IF ~TruthyObj(uhiData) THEN Null
                               ELSE Some(JsonDocument(uhiData, statistics, now))]
    /\ UNCHANGED << uhiData, statistics, loading, error, backendHealthy,
                    numPoints, daysBack, health, effectPending, inflight,
                    nextId, dataSrc, statsSrc, uiVars, mapVars, now, lastLoad >>

\* MapView: the answer to the fetch of its effect
MapViewLoaded(answer) ==
    /\ mapFetch = "pending"
    /\ mapFetch' = "done"
    /\ mapData' = IF answer = Null THEN mapData ELSE answer[1]
    /\ lastEvent' = Event("mapdata")
    /\ UNCHANGED << uhiData, statistics, loading, error, backendHealthy,
                    numPoints, daysBack, health, effectPending, inflight,
                    nextId, dataSrc, statsSrc, uiVars, now, lastLoad >>

\* A click on the i-th marker: the marker has no click handler
MarkerClick(i) ==
    /\ i \in 1..Len(RenderedMarkers)
    /\ lastEvent' = [type |-> "marker", resp |-> Some(mapData[i])]
    /\ UNCHANGED << uhiData, statistics, loading, error, backendHealthy,
                    numPoints, daysBack, health, effectPending, inflight,
                    nextId, dataSrc, statsSrc, uiVars, mapVars, now, lastLoad >>

\* Time passes
Tick ==
    /\ now < MaxClock
    /\ now' = now + 1
    /\ lastEvent' = Event("tick")
    /\ UNCHANGED << uhiData, statistics, loading, error, backendHealthy,
                    numPoints, daysBack, health, effectPending, inflight,
                    nextId, dataSrc, statsSrc, uiVars, mapVars, lastLoad >>

Next ==
    \/ Mount
    \/ \E h \in HealthResponses : checkBackendHealth(h)
    \/ LoadWhenHealthy
    \/ handleRefresh
    \/ handleApplyFilters
    \/ \E req \in inflight : \E resp \in FetchResponses : loadUHIDataSettled(req, resp)
    \/ \E v \in PointsSlider : setNumPoints(v)
    \/ \E v \in DaysSlider : setDaysBack(v)
    \/ DismissError
    \/ \E zone \in ZoneFilters : handleZoneFilter(zone)
    \/ \E view \in Views : setActiveView(view)
    \/ handleExportData
    \/ \E answer \in MapAnswers : MapViewLoaded(answer)
    \/ \E i \in 1..Len(RenderedMarkers) : MarkerClick(i)
    \/ Tick

Spec == Init /\ [][Next]_vars

\* The parameter values the Shell is started with when loadUHIData and
\* validateParameters are exercised over their whole input range
ParamPoints == { MinPoints - 1, MinPoints, InitNumPoints, MaxPoints, MaxPoints + 1 }

ParamDays == { MinDays - 1, MinDays, InitDaysBack, MaxDays, MaxDays + 1 }

InitParams ==
    /\ uhiData = Null
    /\ statistics = Null
    /\ loading = TRUE
    /\ error = Null
    /\ backendHealthy = FALSE
    /\ numPoints \in ParamPoints
    /\ daysBack \in ParamDays
    /\ health = "idle"
    /\ effectPending = FALSE
    /\ inflight = {}
    /\ nextId = 1
    /\ dataSrc = 0
    /\ statsSrc = 0
    /\ lastEvent = Event("init")
    /\ selectedZone = "all"
    /\ selectedPoint = Null
    /\ activeView = "map"
    /\ mapData = << >>
    /\ mapFetch = "none"
    /\ now = 0
    /\ lastLoad = Null

ParamSpec == InitParams /\ [][Next]_vars

\* Effects that React has scheduled run, and the network answers every
\* request it was sent
Fairness ==
    /\ WF_vars(Mount)
    /\ WF_vars(\E h \in HealthResponses : checkBackendHealth(h))
    /\ WF_vars(LoadWhenHealthy)
    /\ WF_vars(\E req \in inflight : \E resp \in FetchResponses :
                  loadUHIDataSettled(req, resp))

FairSpec == InitParams /\ [][Next]_vars /\ Fairness

-----------------------------------------------------------------------------
(* Vocabulary of the properties *)

\* The handler that ran last was a load attempt
LoadAttempted == lastEvent.type \in { "effect", "refresh", "apply" }

\* The handler that ran last was the continuation of loadUHIData
Settled == lastEvent.type = "settled"

LastResp == lastEvent.resp[1]

\* The response has a 2xx status and a payload whose success flag is true
IsSuccess(resp) == resp.net /\ resp.status >= 200 /\ resp.status <= 299
                   /\ resp.json /\ resp.body.success

\* The response has a 2xx status and a payload whose success flag is false
IsApiFailure(resp) == resp.net /\ resp.status >= 200 /\ resp.status <= 299
                      /\ resp.json /\ ~resp.body.success

\* The response arrived with a status outside 200..299
IsHttpFailure(resp) == resp.net /\ (resp.status < 200 \/ resp.status > 299)

PointsOutOfRange(n) == n < 10 \/ n > 500

DaysOutOfRange(d) == d < 7 \/ d > 90

-----------------------------------------------------------------------------
\* C1: whenever the Shell displays data (loading is false and uhiData is
\* non-null), uhiData and statistics were stored from the response of one and
\* the same fetch request, and that request has been answered.
C1_SamePair ==
    Displayed =>
        /\ dataSrc = statsSrc
        /\ dataSrc \in 1..(nextId - 1)
        /\ \A req \in inflight : req.id # dataSrc

\* C1 witness: data of a second, later response is displayed
C1_Witness == Displayed /\ dataSrc = 2 /\ statsSrc = 2 /\ statistics # Null

\* C2: in every error state (an error is shown and no load is running) the
\* Refresh and Apply controls are usable, so a new load attempt can be started.
C2_RetryFromEveryError ==
    (~loading /\ error # Null) => (~RefreshDisabled /\ ~ApplyDisabled)

\* C3: at most one fetchUHIData request is outstanding in every reachable state.
C3_AtMostOneFetch == Cardinality(inflight) <= 1

\* C3 witness: a fetch started by Refresh or Apply is outstanding after an
\* earlier fetch was answered
C3_Witness ==
    /\ Cardinality(inflight) = 1
    /\ nextId > 2
    /\ lastEvent.type \in { "refresh", "apply" }

\* C4: a continuation that got a successful response (2xx, success true)
\* starts in Loading and ends with uhiData and statistics equal to the
\* payload's data and statistics, error null and loading false.
C4_SuccessLoaded ==
    [][ (lastEvent'.type = "settled" /\ IsSuccess(lastEvent'.resp[1])) =>
            /\ loading
            /\ uhiData' = lastEvent'.resp[1].body.data
            /\ statistics' = lastEvent'.resp[1].body.statistics
            /\ error' = Null
            /\ ~loading' ]_vars

\* C4 witness: the three-point payload has just been loaded, in its order
C4_Witness ==
    /\ Settled /\ IsSuccess(LastResp)
    /\ uhiData = Some(DataA) /\ statistics = Some(StatsA)
    /\ uhiData[1][1].zone = 0 /\ uhiData[1][3].zone = 2
    /\ error = Null /\ ~loading

\* C5: after a non-2xx response the Shell is Failed (loading false, error
\* non-null) and the error message contains the response's status code.
C5_HttpFailed ==
    (Settled /\ IsHttpFailure(LastResp)) =>
        /\ ~loading
        /\ error # Null
        /\ Contains(error[1], ToString(LastResp.status))

\* C5 witness: a 500 response has just been handled
C5_Witness ==
    /\ Settled /\ IsHttpFailure(LastResp) /\ LastResp.status = 500
    /\ error = Some(<< "HTTP error! status: ", "500" >>)

\* C6 (as stated): after a 2xx response with success false the Shell is
\* Failed with error equal to the payload's error field, or to the fallback
\* message when the error field is absent.
C6_ApiFailedAsStated ==
    (Settled /\ IsApiFailure(LastResp)) =>
        /\ ~loading
        /\ error = IF LastResp.body.error # Null
                     THEN LastResp.body.error
                     ELSE Some(Str("API returned error"))

\* C6 (amended): after a 2xx response with success false the Shell is Failed
\* with error equal to the payload's error field when that field is a
\* non-empty string, and to the fallback message "API returned error" when
\* the field is absent or the empty string.
C6_ApiFailed ==
    (Settled /\ IsApiFailure(LastResp)) =>
        /\ ~loading
        /\ error = IF LastResp.body.error = Null
                       \/ LastResp.body.error = Some(EmptyStr)
                     THEN Some(Str("API returned error"))
                     ELSE LastResp.body.error

\* C6 witness: both the payload's message and the fallback have been shown
C6_Witness ==
    /\ Settled /\ IsApiFailure(LastResp) /\ ~loading
    /\ \/ LastResp.body.error = Null /\ error = Some(Str("API returned error"))
       \/ error = Some(Str("Weather API unavailable"))

\* C7: validateParameters returns one message for each violated bound (the
\* points message exactly when numPoints is outside [10,500], the days message
\* exactly when daysBack is outside [7,90], each decided by its own field
\* alone) and the empty list when both are in range.
C7_ValidateExact ==
    LET errors == validateParameters(numPoints, daysBack)
        violated == (IF numPoints < 10 THEN 1 ELSE 0)
                    + (IF numPoints > 500 THEN 1 ELSE 0)
                    + (IF daysBack < 7 THEN 1 ELSE 0)
                    + (IF daysBack > 90 THEN 1 ELSE 0)
    IN  /\ Len(errors) = violated
        /\ errors = (IF PointsOutOfRange(numPoints)
                       THEN << Str("Number of points must be between 10 and 500") >>
                       ELSE << >>)
                    \o (IF DaysOutOfRange(daysBack)
                          THEN << Str("Days back must be between 7 and 90") >>
                          ELSE << >>)
        /\ (numPoints \in 10..500 /\ daysBack \in 7..90) => errors = << >>

\* C7 witness: a load attempt reported both violated bounds
C7_Witness ==
    /\ LoadAttempted
    /\ numPoints > 500 /\ daysBack < 7
    /\ Len(validateParameters(numPoints, daysBack)) = 2
    /\ error = Some(<< "Number of points must be between 10 and 500", ". ",
                       "Days back must be between 7 and 90" >>)

\* C8: a data fetch is only ever issued after the health check returned
\* true; when the health check does not succeed the Shell enters Unhealthy
\* (backend-not-responding error, loading false) and no data fetch is issued.
C8_HealthFirst ==
    /\ (nextId > 1 \/ inflight # {}) => health = "ok"
    /\ health \in { "notok", "neterr" } =>
          /\ nextId = 1 /\ inflight = {}
          /\ ~backendHealthy /\ ~loading
    /\ (lastEvent.type = "health" /\ lastEvent.resp # Some("ok")) =>
          error = Some(Str("Backend server is not responding. Please try again later."))

\* C8 witness: a fetch is outstanding after a successful health check
C8_Witness == health = "ok" /\ inflight # {} /\ nextId = 2 /\ lastEvent.type = "effect"

\* C8 witness of the other branch: the health check failed at the network level
C8_WitnessUnhealthy == health = "neterr" /\ error # Null /\ ~loading /\ nextId = 1

\* C9: when a load attempt fails validation or its fetch settles, loading is
\* false; and whenever loading is true it is eventually false.
C9_LeavesLoading ==
    /\ [](Settled => ~loading)
    /\ []((LoadAttempted /\ (PointsOutOfRange(numPoints) \/ DaysOutOfRange(daysBack)))
            => ~loading)
    /\ (loading ~> ~loading)

\* C9 witness: a rejected fetch has left Loading
C9_Witness ==
    /\ Settled /\ ~LastResp.net
    /\ ~loading /\ error = Some(Str("Failed to fetch"))

\* C10: a load attempt with out-of-range parameters issues no request, sets
\* error to the validation messages and loading to false, and leaves uhiData
\* and statistics unchanged.
C10_InvalidNoRequest ==
    [][ (lastEvent'.type \in { "effect", "refresh", "apply" }
         /\ (PointsOutOfRange(numPoints) \/ DaysOutOfRange(daysBack))) =>
            /\ inflight' = inflight
            /\ nextId' = nextId
            /\ uhiData' = uhiData
            /\ statistics' = statistics
            /\ ~loading'
            /\ error' # Null
            /\ error'[1] \in
                 { Str("Number of points must be between 10 and 500"),
                   Str("Days back must be between 7 and 90"),
                   << "Number of points must be between 10 and 500", ". ",
                      "Days back must be between 7 and 90" >> } ]_vars

\* C10 witness: a refresh with out-of-range days was refused without a request
C10_Witness ==
    /\ lastEvent.type = "refresh"
    /\ DaysOutOfRange(daysBack) /\ ~PointsOutOfRange(numPoints)
    /\ error = Some(Str("Days back must be between 7 and 90"))
    /\ ~loading /\ inflight = {} /\ nextId = 1

-----------------------------------------------------------------------------
(* Vocabulary of the later properties *)

\* The handler that runs in this step was started by the user
UserEvents == { "refresh", "apply", "dismiss", "points", "days", "zone",
                "tab", "export", "marker" }

\* Nothing is scheduled or outstanding: the Shell waits for the user
Quiescent ==
    /\ health \notin { "idle", "pending" }
    /\ ~effectPending
    /\ inflight = {}

\* The markers of the points of a list that pass the zone filter, in order
RECURSIVE ExpectedMarkers(_, _)
ExpectedMarkers(points, zone) ==
    IF points = << >> THEN << >>
    ELSE LET p == Head(points)
             rest == ExpectedMarkers(Tail(points), zone)
         IN IF zone = "all" \/ zone = ToString(p.zone)
              THEN << [latitude |-> p.lat, longitude |-> p.lon,
                       background |-> CASE p.zone = 0 -> "green"
                                        [] p.zone = 1 -> "orange"
                                        [] OTHER -> "red",
                       title |-> p.recommendation] >> \o rest
              ELSE rest

-----------------------------------------------------------------------------
\* C11: the Shell issues the health request only on mount and only once, a
\* data fetch only from the effect that follows the successful health check
\* (once, as the first request) or from Refresh/Apply; a settled fetch or a
\* failed health check issues nothing, and once nothing is outstanding the
\* health, error and loading state change only in a handler started by the user.
C11_NoAutomaticRetry ==
    [][ /\ nextId' # nextId =>
              /\ lastEvent'.type \in { "effect", "refresh", "apply" }
              /\ lastEvent'.type = "effect" => nextId = 1
        /\ (health' = "pending" /\ health # "pending") =>
              (lastEvent'.type = "mount" /\ health = "idle")
        /\ inflight' \subseteq inflight \/ nextId' # nextId
        /\ backendHealthy' # backendHealthy => lastEvent'.type = "health"
        /\ (Quiescent /\ (error' # error \/ loading' # loading
                          \/ backendHealthy' # backendHealthy)) =>
              lastEvent'.type \in { "refresh", "apply", "dismiss" } ]_vars

\* C11 witness: after a failed health check the user has dismissed the
\* banner and still no request was issued
C11_Witness ==
    /\ lastEvent.type = "dismiss"
    /\ health = "notok" /\ ~backendHealthy
    /\ nextId = 1 /\ inflight = {} /\ ~effectPending

\* C12: a zone click, a slider change, a tab switch and an export trigger no
\* network call, leave uhiData, statistics, loading, error and backendHealthy
\* unchanged, and change only their own field.
C12_PureUiActions ==
    [][ lastEvent'.type \in { "zone", "points", "days", "tab", "export" } =>
          /\ UNCHANGED << uhiData, statistics, loading, error, backendHealthy >>
          /\ UNCHANGED << inflight, nextId, health >>
          /\ ~(mapFetch' = "pending" /\ mapFetch # "pending")
          /\ lastEvent'.type = "zone" =>
                UNCHANGED << numPoints, daysBack, activeView, selectedPoint >>
          /\ lastEvent'.type = "points" =>
                UNCHANGED << daysBack, selectedZone, activeView, selectedPoint >>
          /\ lastEvent'.type = "days" =>
                UNCHANGED << numPoints, selectedZone, activeView, selectedPoint >>
          /\ lastEvent'.type = "tab" =>
                UNCHANGED << numPoints, daysBack, selectedZone, selectedPoint >>
          /\ lastEvent'.type = "export" =>
                UNCHANGED << numPoints, daysBack, selectedZone, activeView,
                             selectedPoint >> ]_vars

\* C13: an export produces a document whose data and statistics are those of
\* the last successful load and whose exportedAt is no earlier than the time
\* of that load; nothing is exported before a first successful load.
C13_ExportLastLoaded ==
    /\ lastLoad = Null => lastEvent.type # "export"
    /\ lastEvent.type = "export" =>
          /\ lastEvent.resp # Null
          /\ lastLoad # Null
          /\ lastLoad[1].data # Null
          /\ lastEvent.resp[1].data = lastLoad[1].data[1]
          /\ IF lastLoad[1].statistics = Null
               THEN "statistics" \notin DOMAIN lastEvent.resp[1]
               ELSE lastEvent.resp[1].statistics = lastLoad[1].statistics[1]
          /\ lastEvent.resp[1].exportedAt >= lastLoad[1].at

\* C13 witness: an export after a successful load at time 1 that was followed
\* by a failed load
C13_Witness ==
    /\ lastEvent.type = "export"
    /\ error # Null
    /\ dataSrc = 1 /\ nextId = 3
    /\ lastLoad[1].at = 1
    /\ lastEvent.resp[1].data = DataA

\* C14: while the map is shown, the markers on the screen are one marker per
\* point of the Shell's uhiData that passes the selected-zone filter, in
\* order, coloured green, orange and red for zones 0, 1 and 2.
C14_MarkersOfShellData ==
    MapLayoutShown => RenderedMarkers = ExpectedMarkers(uhiData[1], selectedZone)

\* C15: after a click on a marker the Shell's selectedPoint is the point of
\* that marker.
C15_MarkerClickSelects ==
    lastEvent.type = "marker" => selectedPoint = lastEvent.resp

\* C16: checkHealth does not throw; the value it returns is true exactly when
\* the health request got a 2xx response, and false for another status and
\* for a failure of the network.
C16_CheckHealthTotal ==
    lastEvent.type = "health" =>
        LET answer == HealthAnswer(lastEvent.resp[1]) IN
        /\ ~checkHealth(lastEvent.resp[1]).threw
        /\ backendHealthy = (answer.net /\ answer.status >= 200 /\ answer.status <= 299)
        /\ ~backendHealthy =>
              (~loading /\ error = Some(Str("Backend server is not responding. Please try again later.")))

\* C16 witness: the health request has just failed at the network level
C16_Witness ==
    /\ lastEvent.type = "health" /\ lastEvent.resp = Some("neterr")
    /\ ~backendHealthy /\ ~loading /\ error # Null

\* C17: a load that fails (validation, HTTP, API or network error) leaves
\* uhiData and statistics as they were and ends with the error set and
\* loading false; before the first successful load both are null.
C17_FailedLoadKeepsData ==
    /\ [][ ( \/ lastEvent'.type = "settled" /\ ~IsSuccess(lastEvent'.resp[1])
             \/ /\ lastEvent'.type \in { "effect", "refresh", "apply" }
                /\ (PointsOutOfRange(numPoints) \/ DaysOutOfRange(daysBack)) ) =>
              /\ uhiData' = uhiData
              /\ statistics' = statistics
              /\ error' # Null
              /\ ~loading' ]_vars
    /\ [](lastLoad = Null => (uhiData = Null /\ statistics = Null))

\* C17 witness: the data of the first load is displayed with the error of a
\* failed second load
C17_Witness ==
    /\ Settled /\ ~IsSuccess(LastResp)
    /\ dataSrc = 1 /\ uhiData = Some(DataB) /\ statistics = Some(StatsB)
    /\ error # Null /\ Displayed

\* C18: while loading is true numPoints and daysBack do not change, and every
\* outstanding request was sent with the current numPoints and daysBack.
C18_ParametersFrozen ==
    /\ [][ loading => (numPoints' = numPoints /\ daysBack' = daysBack) ]_vars
    /\ [](\A req \in inflight : req.points = numPoints /\ req.days = daysBack)

\* C18 witness: a request sent with changed slider values is outstanding
C18_Witness ==
    /\ loading
    /\ \E req \in inflight : req.points = 200 /\ req.days = 84
    /\ numPoints = 200 /\ daysBack = 84

\* C19: a non-null error implies that loading is false; a load attempt that
\* sends a request leaves the error null.
C19_ErrorNotWhileLoading ==
    /\ error # Null => ~loading
    /\ (LoadAttempted /\ inflight # {}) => error = Null

\* C19 witness: a second load was started after the first one failed
C19_Witness ==
    /\ lastEvent.type \in { "refresh", "apply" }
    /\ loading /\ error = Null
    /\ lastLoad = Null /\ nextId = 3

====
